---- MODULE Spec2Model ----
(***************************************************************************)
(* Book Review System API (src/Book_Review_System_API/main.py).            *)
(*                                                                         *)
(* The state is the SQLite database behind the SQLAlchemy session (the     *)
(* two tables books and reviews), the background tasks that have been      *)
(* scheduled and not yet run, and the last HTTP response.  Each handler of *)
(* main.py is one action.  Under Spec the handlers run one request at a    *)
(* time (the TestClient of main.py:231); under SpecRace create_review,     *)
(* delete_book, update_book and update_review run in worker threads and    *)
(* interleave between their query, their commit and their refresh.         *)
(***************************************************************************)
EXTENDS Integers, Sequences, FiniteSets, Bags, TLC

\* ------------------------------------------------------------------ bounds
MaxBookId == 2
MaxReviewId == 2
MaxPending == 2
NumWorkers == 2
MaxRequests == 5
MaxEmployees == 2
MaxCalls == 5

\* -------------------------------------------------------- request values
\* A JSON value sent for an int field: a JSON number, a JSON string that
\* spells a number ("1976"), or a JSON string that does not ("abc").
JInt(n) == [t |-> "int", n |-> n]
JNumStr(n) == [t |-> "numstr", n |-> n]
JBadStr == [t |-> "str", n |-> 0]

\* pydantic's int field: numbers and numeric strings are accepted (and the
\* string is converted), anything else is a validation error.
IntFieldValid(j) == j.t \in {"int", "numstr"}
IntFieldValue(j) == j.n

\* An optional query parameter: absent (None) or supplied with a value.
None == [some |-> FALSE]
Some(v) == [some |-> TRUE, v |-> v]

BookBodies ==
    { [title |-> "Dune", author |-> "Herbert", publication_year |-> JInt(1965)],
      [title |-> "", author |-> "Herbert", publication_year |-> JNumStr(0)],
      [title |-> "Dune", author |-> "Herbert", publication_year |-> JBadStr] }

ReviewBodies ==
    { [text |-> "Great", rating |-> JInt(5)],
      [text |-> "Bad", rating |-> JNumStr(0)],
      [text |-> "Great", rating |-> JBadStr] }

AuthorFilters == { None, Some(""), Some("Herbert") }
YearFilters == { None, Some(0), Some(1965) }

\* Path parameters: every id the store can assign, and one it never assigns.
BookIdArgs == 1 .. (MaxBookId + 1)
ReviewIdArgs == 1 .. (MaxReviewId + 1)

\* NULL in the column reviews.book_id.
NULL == 0

VARIABLES
    books,          \* table books: set of rows [id, title, author, publication_year]
    reviews,        \* table reviews: set of rows [id, book_id, text, rating]
    pending,        \* bag of review ids: background tasks added and not yet run
    response,       \* the last HTTP response, with the request it answers
    bookIdsUsed,    \* history: every id a committed books row has had
    reviewIdsUsed,  \* history: every id a committed reviews row has had
    lastTask,       \* the last background task that ran: the review id and how it ended
    requests,       \* number of requests received
    workers,        \* SpecRace: the request each worker thread is handling
    departments,    \* employee script: Company.departments, a dict in insertion order
    file,           \* employee script: company_data.json
    saved,          \* history: the company as it was when the file was written
    reloaded,       \* employee script: the Company the file was last loaded into
    lastCall,       \* employee script: the last method called, with its arguments
    calls           \* employee script: number of method calls

api == <<books, reviews, pending, response, bookIdsUsed, reviewIdsUsed, lastTask, requests, workers>>
company == <<departments, file, saved, reloaded, lastCall, calls>>
vars == <<api, company>>

\* --------------------------------------------------------------- the store
Ids(rows) == { r.id : r \in rows }

SetMax(S) == CHOOSE m \in S : \A x \in S : x <= m

\* INTEGER PRIMARY KEY without the AUTOINCREMENT keyword: SQLite assigns
\* one more than the largest rowid in the table, 1 when the table is empty.
NextRowid(rows) == IF rows = {} THEN 1 ELSE SetMax(Ids(rows)) + 1

\* db.query(Model).filter(Model.id == id).first()
RowsById(rows, id) == { r \in rows : r.id = id }
Exists(rows, id) == RowsById(rows, id) # {}
RowOf(rows, id) == CHOOSE r \in rows : r.id = id

\* BookCreate(**json) / ReviewCreate(**json)
BookCreateValid(body) == IntFieldValid(body.publication_year)
ReviewCreateValid(body) == IntFieldValid(body.rating)

\* Book(**book.dict()) after commit and refresh
NewBook(rows, body) ==
    [id |-> NextRowid(rows), title |-> body.title, author |-> body.author,
     publication_year |-> IntFieldValue(body.publication_year)]

\* Review(**review.dict(), book_id=book_id) after commit and refresh
NewReview(rows, book_id, body) ==
    [id |-> NextRowid(rows), book_id |-> book_id, text |-> body.text,
     rating |-> IntFieldValue(body.rating)]

\* db.add(row); db.commit()
InsertRow(rows, row) == rows \cup {row}

\* create_review without its db.commit(): the session is rolled back on close.
PersistReviewNoCommit(rows, db_review) == rows

\* db.add(db_review); db.commit() in create_review
PersistReview(rows, db_review) == InsertRow(rows, db_review)

\* create_review without the check of the book.
QueryBookUnfiltered(rows, book_id) == {book_id}

\* db.query(Book).filter(Book.id == book_id).first() in create_review
QueryBook(rows, book_id) == { b \in rows : b.id = book_id }

\* --------------------------------------------------------------- responses
\* The body of a response is a sequence of JSON objects: one object for a
\* record, a message or an error detail, any number for a list.
AsBookCreate(b) == [title |-> b.title, author |-> b.author, publication_year |-> b.publication_year]
AsReviewCreate(r) == [text |-> r.text, rating |-> r.rating]
AsBookGet(b) == [id |-> b.id, title |-> b.title, author |-> b.author, publication_year |-> b.publication_year]
AsReviewGet(r) == [id |-> r.id, text |-> r.text, rating |-> r.rating]

Reply(op, args, status, body) == [op |-> op, args |-> args, status |-> status, body |-> body]
HTTPException(op, args, status, detail) == Reply(op, args, status, <<[detail |-> detail]>>)
Unprocessable(op, args) == Reply(op, args, 422, <<[detail |-> "validation error"]>>)

\* create_review calling simulate_email_confirmation itself: nothing is scheduled.
add_task_inline(tasks, review) == tasks

\* The task added twice.
add_task_twice(tasks, review) == tasks (+) SetToBag({review.id}) (+) SetToBag({review.id})

\* background_tasks.add_task(simulate_email_confirmation, db_review)
add_task(tasks, review) == tasks (+) SetToBag({review.id})

Idle == [op |-> "idle"]

Init ==
    /\ books = {}
    /\ reviews = {}
    /\ pending = EmptyBag
    /\ response = Reply("none", <<>>, 0, <<>>)
    /\ bookIdsUsed = {}
    /\ reviewIdsUsed = {}
    /\ lastTask = [id |-> 0, outcome |-> "none"]
    /\ requests = 0
    /\ workers = [w \in 1 .. NumWorkers |-> Idle]
    /\ departments = <<>>
    /\ file = [exists |-> FALSE, data |-> <<>>]
    /\ saved = <<>>
    /\ reloaded = [done |-> FALSE, company |-> <<>>, source |-> <<>>]
    /\ lastCall = [op |-> "none", args |-> <<>>]
    /\ calls = 0

\* History of the ids of committed rows, kept from what the tables hold.
History ==
    /\ bookIdsUsed' = bookIdsUsed \cup Ids(books')
    /\ reviewIdsUsed' = reviewIdsUsed \cup Ids(reviews')

\* A request comes in.
Receive ==
    /\ requests < MaxRequests
    /\ requests' = requests + 1

\* ---------------------------------------------------------------- handlers
\* POST /books/
create_book(body) ==
    LET args == <<body>> IN
    /\ Receive
    /\ IF ~BookCreateValid(body)
       THEN /\ response' = Unprocessable("create_book", args)
            /\ UNCHANGED books
       ELSE LET db_book == NewBook(books, body) IN
            /\ db_book.id <= MaxBookId
            /\ books' = InsertRow(books, db_book)
            /\ response' = Reply("create_book", args, 200, <<AsBookCreate(db_book)>>)
    /\ UNCHANGED <<reviews, pending, lastTask, workers>>
    /\ History
    /\ UNCHANGED company

\* POST /books/{book_id}/reviews/
create_review(book_id, body) ==
    LET args == <<book_id, body>> IN
    /\ Receive
    /\ IF ~ReviewCreateValid(body)
       THEN /\ response' = Unprocessable("create_review", args)
            /\ UNCHANGED <<reviews, pending>>
       ELSE IF QueryBook(books, book_id) = {}
       THEN /\ response' = HTTPException("create_review", args, 404, "Book not found")
            /\ UNCHANGED <<reviews, pending>>
       ELSE LET db_review == NewReview(reviews, book_id, body) IN
            /\ db_review.id <= MaxReviewId
            /\ BagCardinality(pending) < MaxPending
            /\ reviews' = PersistReview(reviews, db_review)
            /\ pending' = add_task(pending, db_review)
            /\ response' = Reply("create_review", args, 200, <<AsReviewCreate(db_review)>>)
    /\ UNCHANGED <<books, lastTask, workers>>
    /\ History
    /\ UNCHANGED company

\* Rows in the order SQLite scans them: by rowid.
RECURSIVE InIdOrder(_)
InIdOrder(rows) ==
    IF rows = {} THEN <<>>
    ELSE LET last == RowOf(rows, SetMax(Ids(rows)))
         IN  Append(InIdOrder(rows \ {last}), last)

RECURSIVE MapBookGet(_)
MapBookGet(s) == IF s = <<>> THEN <<>> ELSE <<AsBookGet(Head(s))>> \o MapBookGet(Tail(s))

RECURSIVE MapReviewGet(_)
MapReviewGet(s) == IF s = <<>> THEN <<>> ELSE <<AsReviewGet(Head(s))>> \o MapReviewGet(Tail(s))

\* Python truth value of an optional query parameter: None, "" and 0 are false.
TruthyStr(opt) == opt.some /\ opt.v # ""
TruthyInt(opt) == opt.some /\ opt.v # 0

\* The query read_books builds: a filter is added only for a true parameter.
BooksQuery(rows, author, publication_year) ==
    { b \in rows :
        /\ (TruthyStr(author) => b.author = author.v)
        /\ (TruthyInt(publication_year) => b.publication_year = publication_year.v) }

\* GET /books/
read_books(author, publication_year) ==
    /\ Receive
    /\ response' = Reply("read_books", <<author, publication_year>>, 200,
                         MapBookGet(InIdOrder(BooksQuery(books, author, publication_year))))
    /\ UNCHANGED <<books, reviews, pending, lastTask, workers>>
    /\ History
    /\ UNCHANGED company

\* read_reviews without the filter on book_id.
ReviewsOfAnyBook(rows, book_id) == rows

\* db.query(Review).filter(Review.book_id == book_id).all()
ReviewsOfBook(rows, book_id) == { r \in rows : r.book_id # NULL /\ r.book_id = book_id }

\* GET /books/{book_id}/reviews/
read_reviews(book_id) ==
    LET args == <<book_id>>
        found == ReviewsOfBook(reviews, book_id) IN
    /\ Receive
    /\ response' = IF found = {}
                   THEN HTTPException("read_reviews", args, 404, "No reviews found for this book")
                   ELSE Reply("read_reviews", args, 200, MapReviewGet(InIdOrder(found)))
    /\ UNCHANGED <<books, reviews, pending, lastTask, workers>>
    /\ History
    /\ UNCHANGED company

\* update_book that leaves the title as it was.
SetBookAttrsButTitle(b, body) ==
    [b EXCEPT !.author = body.author, !.publication_year = IntFieldValue(body.publication_year)]

\* for attr, value in book.dict().items(): setattr(db_book, attr, value)
SetBookAttrs(b, body) ==
    [b EXCEPT !.title = body.title, !.author = body.author,
              !.publication_year = IntFieldValue(body.publication_year)]

SetReviewAttrs(r, body) ==
    [r EXCEPT !.text = body.text, !.rating = IntFieldValue(body.rating)]

\* The row with the primary key of new replaced by new.
ReplaceRow(rows, new) == (rows \ RowsById(rows, new.id)) \cup {new}

\* PUT /books/{book_id}/
update_book(book_id, body) ==
    LET args == <<book_id, body>> IN
    /\ Receive
    /\ IF ~BookCreateValid(body)
       THEN /\ response' = Unprocessable("update_book", args)
            /\ UNCHANGED books
       ELSE IF ~Exists(books, book_id)
       THEN /\ response' = HTTPException("update_book", args, 404, "Book not found")
            /\ UNCHANGED books
       ELSE LET db_book == SetBookAttrs(RowOf(books, book_id), body) IN
            /\ books' = ReplaceRow(books, db_book)
            /\ response' = Reply("update_book", args, 200, <<AsBookCreate(db_book)>>)
    /\ UNCHANGED <<reviews, pending, lastTask, workers>>
    /\ History
    /\ UNCHANGED company

\* PUT /reviews/{review_id}/
update_review(review_id, body) ==
    LET args == <<review_id, body>> IN
    /\ Receive
    /\ IF ~ReviewCreateValid(body)
       THEN /\ response' = Unprocessable("update_review", args)
            /\ UNCHANGED reviews
       ELSE IF ~Exists(reviews, review_id)
       THEN /\ response' = HTTPException("update_review", args, 404, "Review not found")
            /\ UNCHANGED reviews
       ELSE LET db_review == SetReviewAttrs(RowOf(reviews, review_id), body) IN
            /\ reviews' = ReplaceRow(reviews, db_review)
            /\ response' = Reply("update_review", args, 200, <<AsReviewCreate(db_review)>>)
    /\ UNCHANGED <<books, pending, lastTask, workers>>
    /\ History
    /\ UNCHANGED company

\* Flushing db.delete(db_book): Book.reviews has no delete cascade, so the
\* session loads the book's reviews and sets their book_id to NULL.
NullifyReviews(rows, book_id) ==
    { IF r.book_id = book_id THEN [r EXCEPT !.book_id = NULL] ELSE r : r \in rows }

\* A delete without its WHERE clause.
DeleteAllRows(rows, id) == {}

\* db.delete(row); db.commit()
DeleteRow(rows, id) == rows \ RowsById(rows, id)

\* DELETE /books/{book_id}/
delete_book(book_id) ==
    LET args == <<book_id>> IN
    /\ Receive
    /\ IF ~Exists(books, book_id)
       THEN /\ response' = HTTPException("delete_book", args, 404, "Book not found")
            /\ UNCHANGED <<books, reviews>>
       ELSE /\ reviews' = NullifyReviews(reviews, book_id)
            /\ books' = DeleteRow(books, book_id)
            /\ response' = Reply("delete_book", args, 200, <<[message |-> "Book deleted successfully"]>>)
    /\ UNCHANGED <<pending, lastTask, workers>>
    /\ History
    /\ UNCHANGED company

\* delete_review without the check of the review: deleting is always acknowledged.
delete_review_unchecked(review_id) ==
    /\ Receive
    /\ reviews' = DeleteRow(reviews, review_id)
    /\ response' = Reply("delete_review", <<review_id>>, 200, <<[message |-> "Review deleted successfully"]>>)
    /\ UNCHANGED <<books, pending, lastTask, workers>>
    /\ History
    /\ UNCHANGED company

\* DELETE /reviews/{review_id}/
delete_review(review_id) ==
    LET args == <<review_id>> IN
    /\ Receive
    /\ IF ~Exists(reviews, review_id)
       THEN /\ response' = HTTPException("delete_review", args, 404, "Review not found")
            /\ UNCHANGED reviews
       ELSE /\ reviews' = DeleteRow(reviews, review_id)
            /\ response' = Reply("delete_review", args, 200, <<[message |-> "Review deleted successfully"]>>)
    /\ UNCHANGED <<books, pending, lastTask, workers>>
    /\ History
    /\ UNCHANGED company

\* The background task runs after the response has been sent.  It prints the
\* review id; whether the print returns or raises, the request is over and
\* its session closed: nothing of it is left to undo.
simulate_email_confirmation(id, outcome) ==
    /\ BagIn(id, pending)
    /\ pending' = pending (-) SetToBag({id})
    /\ lastTask' = [id |-> id, outcome |-> outcome]
    /\ UNCHANGED <<books, reviews, response, bookIdsUsed, reviewIdsUsed, requests, workers>>
    /\ UNCHANGED company

RunTask ==
    \E id \in ReviewIdArgs, outcome \in {"returned", "raised"} :
        simulate_email_confirmation(id, outcome)

Next ==
    \/ \E body \in BookBodies : create_book(body)
    \/ \E id \in BookIdArgs, body \in ReviewBodies : create_review(id, body)
    \/ \E a \in AuthorFilters, y \in YearFilters : read_books(a, y)
    \/ \E id \in BookIdArgs : read_reviews(id)
    \/ \E id \in BookIdArgs, body \in BookBodies : update_book(id, body)
    \/ \E id \in ReviewIdArgs, body \in ReviewBodies : update_review(id, body)
    \/ \E id \in BookIdArgs : delete_book(id)
    \/ \E id \in ReviewIdArgs : delete_review(id)
    \/ RunTask

Spec == Init /\ [][Next]_vars

\* ------------------------------------------------- handlers in worker threads
\* FastAPI runs a def handler in a thread of its pool, each with a session of
\* its own.  A handler reads the book in one statement and commits in a later
\* one; other threads' statements come in between.
Workers == 1 .. NumWorkers

\* create_review up to the check of the book (main.py:138-140).
create_review_query(w, book_id, body) ==
    LET args == <<book_id, body>> IN
    /\ workers[w] = Idle
    /\ Receive
    /\ IF ~ReviewCreateValid(body)
       THEN /\ response' = Unprocessable("create_review", args)
            /\ UNCHANGED workers
       ELSE IF QueryBook(books, book_id) = {}
       THEN /\ response' = HTTPException("create_review", args, 404, "Book not found")
            /\ UNCHANGED workers
       ELSE /\ workers' = [workers EXCEPT ![w] = [op |-> "create_review", book_id |-> book_id, body |-> body]]
            /\ UNCHANGED response
    /\ UNCHANGED <<books, reviews, pending, lastTask, bookIdsUsed, reviewIdsUsed>>
    /\ UNCHANGED company

\* create_review from the insert to the return (main.py:141-147).  SQLite
\* does not enforce the foreign key (PRAGMA foreign_keys is off).
create_review_commit(w) ==
    /\ workers[w] # Idle
    /\ workers[w].op = "create_review"
    /\ LET book_id == workers[w].book_id
           body == workers[w].body
           db_review == NewReview(reviews, book_id, body) IN
       /\ db_review.id <= MaxReviewId
       /\ BagCardinality(pending) < MaxPending
       /\ reviews' = PersistReview(reviews, db_review)
       /\ pending' = add_task(pending, db_review)
       /\ response' = Reply("create_review", <<book_id, body>>, 200, <<AsReviewCreate(db_review)>>)
    /\ workers' = [workers EXCEPT ![w] = Idle]
    /\ UNCHANGED <<books, lastTask, requests>>
    /\ History
    /\ UNCHANGED company

\* delete_book up to the check of the book (main.py:197-199).
delete_book_query(w, book_id) ==
    LET args == <<book_id>> IN
    /\ workers[w] = Idle
    /\ Receive
    /\ IF ~Exists(books, book_id)
       THEN /\ response' = HTTPException("delete_book", args, 404, "Book not found")
            /\ UNCHANGED workers
       ELSE /\ workers' = [workers EXCEPT ![w] = [op |-> "delete_book", book_id |-> book_id]]
            /\ UNCHANGED response
    /\ UNCHANGED <<books, reviews, pending, lastTask, bookIdsUsed, reviewIdsUsed>>
    /\ UNCHANGED company

\* delete_book from the delete to the return (main.py:200-202): the flush
\* nullifies the reviews it finds and deletes the row.
delete_book_commit(w) ==
    /\ workers[w] # Idle
    /\ workers[w].op = "delete_book"
    /\ LET book_id == workers[w].book_id IN
       /\ reviews' = NullifyReviews(reviews, book_id)
       /\ books' = DeleteRow(books, book_id)
       /\ response' = Reply("delete_book", <<book_id>>, 200, <<[message |-> "Book deleted successfully"]>>)
    /\ workers' = [workers EXCEPT ![w] = Idle]
    /\ UNCHANGED <<pending, lastTask, requests>>
    /\ History
    /\ UNCHANGED company

\* Bodies for requests that update the same row at the same time: each
\* changes another column of the book (the review) the first body creates.
RaceBookBodies ==
    { [title |-> "Dune", author |-> "Herbert", publication_year |-> JInt(1965)],
      [title |-> "", author |-> "Herbert", publication_year |-> JInt(1965)],
      [title |-> "Dune", author |-> "Herbert", publication_year |-> JNumStr(0)],
      [title |-> "Dune", author |-> "Herbert", publication_year |-> JBadStr] }

RaceReviewBodies ==
    { [text |-> "Great", rating |-> JInt(5)],
      [text |-> "Bad", rating |-> JInt(5)],
      [text |-> "Great", rating |-> JNumStr(0)],
      [text |-> "Great", rating |-> JBadStr] }

\* An exception that no handler catches.
ServerError(op, args) == Reply(op, args, 500, <<[detail |-> "Internal Server Error"]>>)

\* The UPDATE the flush emits: the unit of work compares each attribute with
\* the value the session loaded and writes the columns that differ.
FlushBook(current, loaded, new) ==
    [current EXCEPT
        !.title = IF new.title # loaded.title THEN new.title ELSE @,
        !.author = IF new.author # loaded.author THEN new.author ELSE @,
        !.publication_year = IF new.publication_year # loaded.publication_year
                             THEN new.publication_year ELSE @]

FlushReview(current, loaded, new) ==
    [current EXCEPT
        !.text = IF new.text # loaded.text THEN new.text ELSE @,
        !.rating = IF new.rating # loaded.rating THEN new.rating ELSE @]

\* update_book / update_review up to the check of the row (main.py:172-174,
\* 184-186): the session loads the row.
update_query(w, op, rows, valid, id, body) ==
    LET args == <<id, body>> IN
    /\ workers[w] = Idle
    /\ Receive
    /\ IF ~valid
       THEN /\ response' = Unprocessable(op, args)
            /\ UNCHANGED workers
       ELSE IF ~Exists(rows, id)
       THEN /\ response' = HTTPException(op, args, 404,
                                         IF op = "update_book" THEN "Book not found" ELSE "Review not found")
            /\ UNCHANGED workers
       ELSE /\ workers' = [workers EXCEPT ![w] =
                              [op |-> op, pc |-> "loaded", id |-> id, body |-> body, loaded |-> RowOf(rows, id)]]
            /\ UNCHANGED response
    /\ UNCHANGED <<books, reviews, pending, lastTask, bookIdsUsed, reviewIdsUsed>>
    /\ UNCHANGED company

update_book_query(w, book_id, body) ==
    update_query(w, "update_book", books, BookCreateValid(body), book_id, body)

update_review_query(w, review_id, body) ==
    update_query(w, "update_review", reviews, ReviewCreateValid(body), review_id, body)

At(w, op, pc) == workers[w] # Idle /\ workers[w].op = op /\ "pc" \in DOMAIN workers[w] /\ workers[w].pc = pc

\* update_book from the setattr loop to db.commit() (main.py:175-177).  No
\* UPDATE is emitted when no attribute differs from the loaded one; an UPDATE
\* that matches no row raises StaleDataError.
update_book_commit(w) ==
    /\ At(w, "update_book", "loaded")
    /\ LET id == workers[w].id
           loaded == workers[w].loaded
           new == SetBookAttrs(loaded, workers[w].body) IN
       IF new = loaded
       THEN /\ workers' = [workers EXCEPT ![w].pc = "committed"]
            /\ UNCHANGED <<books, response>>
       ELSE IF ~Exists(books, id)
       THEN /\ response' = ServerError("update_book", <<id, workers[w].body>>)
            /\ workers' = [workers EXCEPT ![w] = Idle]
            /\ UNCHANGED books
       ELSE /\ books' = ReplaceRow(books, FlushBook(RowOf(books, id), loaded, new))
            /\ workers' = [workers EXCEPT ![w].pc = "committed"]
            /\ UNCHANGED response
    /\ UNCHANGED <<reviews, pending, lastTask, requests>>
    /\ History
    /\ UNCHANGED company

\* update_book from db.refresh() to the return (main.py:178-179): the row is
\* read again; a row that is gone raises InvalidRequestError.
update_book_return(w) ==
    /\ At(w, "update_book", "committed")
    /\ LET id == workers[w].id
           args == <<id, workers[w].body>> IN
       response' = IF Exists(books, id)
                   THEN Reply("update_book", args, 200, <<AsBookCreate(RowOf(books, id))>>)
                   ELSE ServerError("update_book", args)
    /\ workers' = [workers EXCEPT ![w] = Idle]
    /\ UNCHANGED <<books, reviews, pending, lastTask, requests, bookIdsUsed, reviewIdsUsed>>
    /\ UNCHANGED company

\* update_review from the setattr loop to db.commit() (main.py:187-189).
update_review_commit(w) ==
    /\ At(w, "update_review", "loaded")
    /\ LET id == workers[w].id
           loaded == workers[w].loaded
           new == SetReviewAttrs(loaded, workers[w].body) IN
       IF new = loaded
       THEN /\ workers' = [workers EXCEPT ![w].pc = "committed"]
            /\ UNCHANGED <<reviews, response>>
       ELSE IF ~Exists(reviews, id)
       THEN /\ response' = ServerError("update_review", <<id, workers[w].body>>)
            /\ workers' = [workers EXCEPT ![w] = Idle]
            /\ UNCHANGED reviews
       ELSE /\ reviews' = ReplaceRow(reviews, FlushReview(RowOf(reviews, id), loaded, new))
            /\ workers' = [workers EXCEPT ![w].pc = "committed"]
            /\ UNCHANGED response
    /\ UNCHANGED <<books, pending, lastTask, requests>>
    /\ History
    /\ UNCHANGED company

\* update_review from db.refresh() to the return (main.py:190-191).
update_review_return(w) ==
    /\ At(w, "update_review", "committed")
    /\ LET id == workers[w].id
           args == <<id, workers[w].body>> IN
       response' = IF Exists(reviews, id)
                   THEN Reply("update_review", args, 200, <<AsReviewCreate(RowOf(reviews, id))>>)
                   ELSE ServerError("update_review", args)
    /\ workers' = [workers EXCEPT ![w] = Idle]
    /\ UNCHANGED <<books, reviews, pending, lastTask, requests, bookIdsUsed, reviewIdsUsed>>
    /\ UNCHANGED company

NextRace ==
    \/ \E body \in BookBodies : create_book(body)
    \/ \E w \in Workers, id \in BookIdArgs, body \in ReviewBodies : create_review_query(w, id, body)
    \/ \E w \in Workers : create_review_commit(w)
    \/ \E w \in Workers, id \in BookIdArgs : delete_book_query(w, id)
    \/ \E w \in Workers : delete_book_commit(w)
    \/ \E w \in Workers, id \in BookIdArgs, body \in RaceBookBodies : update_book_query(w, id, body)
    \/ \E w \in Workers : update_book_commit(w)
    \/ \E w \in Workers : update_book_return(w)
    \/ \E w \in Workers, id \in ReviewIdArgs, body \in RaceReviewBodies : update_review_query(w, id, body)
    \/ \E w \in Workers : update_review_commit(w)
    \/ \E w \in Workers : update_review_return(w)
    \/ RunTask

SpecRace == Init /\ [][NextRace]_vars

\* ===================================================== the employee script
\* src/Employee_Management_System/employee_management_system.py.  A dict is a
\* sequence of entries [key, value] in insertion order; a Department is
\* [name, employees], an Employee [name, emp_id, title, department].
DeptNames == { "HR", "IT" }

Employee(name, emp_id, title, department) ==
    [name |-> name, emp_id |-> emp_id, title |-> title, department |-> department]

Department(name) == [name |-> name, employees |-> <<>>]

\* The employees a caller has: two of them share a name.
Employees(department) ==
    { Employee("Ann", 7, "Manager", department),
      Employee("Bob", 1, "Engineer", department),
      Employee("Ann", 2, "Employee", department) }

\* The departments a caller passes to add_department: new, or with a first
\* employee already in it.
NewDepartments ==
    { Department(n) : n \in DeptNames }
    \cup { [name |-> n, employees |-> <<Employee("Ann", 7, "Manager", n)>>] : n \in DeptNames }

\* key in dict
Contains(dict, key) == \E i \in 1 .. Len(dict) : dict[i].key = key

\* dict[key]
Lookup(dict, key) == dict[CHOOSE i \in 1 .. Len(dict) : dict[i].key = key].value

\* dict[key] = value: a key the dict has keeps its place.
DictSet(dict, key, value) ==
    IF Contains(dict, key)
    THEN [i \in 1 .. Len(dict) |-> IF dict[i].key = key THEN [key |-> key, value |-> value] ELSE dict[i]]
    ELSE Append(dict, [key |-> key, value |-> value])

\* del dict[key]
RECURSIVE DictDel(_, _)
DictDel(dict, key) ==
    IF dict = <<>> THEN <<>>
    ELSE IF Head(dict).key = key THEN DictDel(Tail(dict), key)
    ELSE <<Head(dict)>> \o DictDel(Tail(dict), key)

\* list.remove(x): the first occurrence goes.
RECURSIVE ListRemove(_, _)
ListRemove(list, x) ==
    IF list = <<>> THEN <<>>
    ELSE IF Head(list) = x THEN Tail(list)
    ELSE <<Head(list)>> \o ListRemove(Tail(list), x)

\* add_department that registers the department whatever the dict holds.
AddDepartmentOverwriting(dict, department) == DictSet(dict, department.name, department)

\* Company.add_department
AddDepartment(dict, department) ==
    IF ~Contains(dict, department.name)
    THEN DictSet(dict, department.name, department)
    ELSE dict

\* Company.remove_department
RemoveDepartment(dict, department_name) ==
    IF Contains(dict, department_name) THEN DictDel(dict, department_name) ELSE dict

\* [emp.name for emp in department.employees]
RECURSIVE EmployeeNames(_)
EmployeeNames(employees) ==
    IF employees = <<>> THEN <<>>
    ELSE <<Head(employees).name>> \o EmployeeNames(Tail(employees))

\* The dict comprehension of save_to_file, over self.departments.values().
RECURSIVE SaveData(_)
SaveData(dict) ==
    IF dict = <<>> THEN <<>>
    ELSE LET department == dict[Len(dict)].value
         IN  DictSet(SaveData(SubSeq(dict, 1, Len(dict) - 1)),
                     department.name, EmployeeNames(department.employees))

\* json.dump of a dict of lists of strings: the members of the JSON object,
\* one per key, in the order of the dict.
JsonDump(data) == [i \in 1 .. Len(data) |-> [member |-> data[i].key, array |-> data[i].value]]

\* json.load: the members in the order of the text; of two members with the
\* same name the later value stays.
RECURSIVE JsonLoad(_)
JsonLoad(text) ==
    IF text = <<>> THEN <<>>
    ELSE DictSet(JsonLoad(SubSeq(text, 1, Len(text) - 1)),
                 text[Len(text)].member, text[Len(text)].array)

\* The ids counted from 0.
NextEmpIdFromZero(employees) == Len(employees)

\* emp_id = len(department.employees) + 1
NextEmpId(employees) == Len(employees) + 1

\* The inner loop of load_from_file.
RECURSIVE LoadEmployees(_, _, _)
LoadEmployees(employees, employee_names, department_name) ==
    IF employee_names = <<>> THEN employees
    ELSE LoadEmployees(
             Append(employees, Employee(Head(employee_names), NextEmpId(employees),
                                        "Employee", department_name)),
             Tail(employee_names), department_name)

\* The outer loop of load_from_file: the employees go into the Department
\* just made, which is in the dict only if add_department has put it there.
RECURSIVE LoadInto(_, _)
LoadInto(dict, data) ==
    IF data = <<>> THEN dict
    ELSE LET department_name == Head(data).key
             department == [name |-> department_name,
                            employees |-> LoadEmployees(<<>>, Head(data).value, department_name)]
         IN  LoadInto(AddDepartment(dict, department), Tail(data))

Call(op, args) ==
    /\ calls < MaxCalls
    /\ calls' = calls + 1
    /\ lastCall' = [op |-> op, args |-> args]

\* company.add_department(department)
add_department(department) ==
    /\ Call("add_department", <<department>>)
    /\ departments' = AddDepartment(departments, department)
    /\ UNCHANGED <<file, saved, reloaded>>
    /\ UNCHANGED api

\* company.remove_department(department_name)
remove_department(department_name) ==
    /\ Call("remove_department", <<department_name>>)
    /\ departments' = RemoveDepartment(departments, department_name)
    /\ UNCHANGED <<file, saved, reloaded>>
    /\ UNCHANGED api

\* company.departments[name].add_employee(employee), an employee that is not
\* in the department yet.
add_employee(name, employee) ==
    /\ Contains(departments, name)
    /\ LET department == Lookup(departments, name) IN
       /\ Len(department.employees) < MaxEmployees
       /\ employee \notin { department.employees[i] : i \in 1 .. Len(department.employees) }
       /\ departments' = DictSet(departments, name,
                                 [department EXCEPT !.employees = Append(@, employee)])
    /\ Call("add_employee", <<name, employee>>)
    /\ UNCHANGED <<file, saved, reloaded>>
    /\ UNCHANGED api

\* company.departments[name].remove_employee(employee)
remove_employee(name, employee) ==
    /\ Contains(departments, name)
    /\ LET department == Lookup(departments, name) IN
       departments' = DictSet(departments, name,
                              [department EXCEPT !.employees = ListRemove(@, employee)])
    /\ Call("remove_employee", <<name, employee>>)
    /\ UNCHANGED <<file, saved, reloaded>>
    /\ UNCHANGED api

\* company.save_to_file(filename)
save_to_file ==
    /\ Call("save_to_file", <<>>)
    /\ file' = [exists |-> TRUE, data |-> JsonDump(SaveData(departments))]
    /\ saved' = departments
    /\ UNCHANGED <<departments, reloaded>>
    /\ UNCHANGED api

\* Company().load_from_file(filename): into a new, empty Company.
load_from_file_new ==
    /\ file.exists
    /\ Call("load_from_file", <<"new">>)
    /\ reloaded' = [done |-> TRUE, company |-> LoadInto(<<>>, JsonLoad(file.data)), source |-> saved]
    /\ UNCHANGED <<departments, file, saved>>
    /\ UNCHANGED api

\* company.load_from_file(filename): into the company itself.
load_from_file_self ==
    /\ file.exists
    /\ Call("load_from_file", <<"self">>)
    /\ departments' = LoadInto(departments, JsonLoad(file.data))
    /\ UNCHANGED <<file, saved, reloaded>>
    /\ UNCHANGED api

NextCompany ==
    \/ \E department \in NewDepartments : add_department(department)
    \/ \E name \in DeptNames : remove_department(name)
    \/ \E name \in DeptNames : \E employee \in Employees(name) : add_employee(name, employee)
    \/ \E name \in DeptNames : \E employee \in Employees(name) : remove_employee(name, employee)
    \/ save_to_file
    \/ load_from_file_new
    \/ load_from_file_self

SpecCompany == Init /\ [][NextCompany]_vars

\* ================================================================== claims
Range(s) == { s[i] : i \in 1 .. Len(s) }
AllIdle == \A w \in Workers : workers[w] = Idle

\* A step in which the handler op answered a request.
Answered(op) == requests' = requests + 1 /\ response'.op = op

\* C1: every stored review's book_id is the id of a book in the store, after
\* any sequence of requests (delete_book never leaves a review without its book).
C1_NoOrphanReview == \A r \in reviews : r.book_id \in Ids(books)

\* C2: create_review for a book_id that is not in the store answers 404
\* "Book not found" and leaves books, reviews and the scheduled tasks as
\* they were.
C2_UnknownBookRejected ==
    [][ (/\ Answered("create_review")
         /\ response'.args[1] \notin Ids(books)
         /\ ReviewCreateValid(response'.args[2]))
        => (/\ response'.status = 404
            /\ response'.body = <<[detail |-> "Book not found"]>>
            /\ reviews' = reviews
            /\ books' = books
            /\ pending' = pending) ]_vars

C2_Witness ==
    /\ response.op = "create_review"
    /\ response.status = 404
    /\ ReviewCreateValid(response.args[2])
    /\ books # {}
    /\ reviews # {}

\* C3: create_review and update_review with an integer rating outside 1..5
\* answer 422, and every stored review has a rating in 1..5.
C3_RatingInBounds ==
    /\ \A r \in reviews : r.rating \in 1 .. 5
    /\ (/\ \/ response.op = "create_review" /\ response.args[1] \in Ids(books)
           \/ response.op = "update_review" /\ response.args[1] \in Ids(reviews)
        /\ ReviewCreateValid(response.args[2])
        /\ IntFieldValue(response.args[2].rating) \notin 1 .. 5)
       => response.status = 422

\* C4: read_reviews answers 200 with an empty list for a book that exists
\* and has no reviews, and 404 for a book_id that does not exist.
C4_EmptyCasesDistinguished ==
    response.op = "read_reviews" =>
        LET book_id == response.args[1] IN
        /\ (book_id \in Ids(books) /\ ReviewsOfBook(reviews, book_id) = {})
              => (response.status = 200 /\ response.body = <<>>)
        /\ book_id \notin Ids(books) => response.status = 404

\* C5: an id that a book (a review) has had is never given to a new book
\* (a new review), also after the record that had it was deleted.
C5_IdsNeverReused ==
    [][ /\ \A id \in Ids(books') \ Ids(books) : id \notin bookIdsUsed
        /\ \A id \in Ids(reviews') \ Ids(reviews) : id \notin reviewIdsUsed ]_vars

\* C6: when delete_book and create_review on the same book interleave, the
\* submission answers 200 or 404, and once both are over no stored review
\* has the book_id of a book that is not in the store.
C6_RaceKeepsIntegrity ==
    /\ (response.op = "create_review" /\ ReviewCreateValid(response.args[2]))
          => response.status \in {200, 404}
    /\ AllIdle => \A r \in reviews : r.book_id = NULL \/ r.book_id \in Ids(books)

\* C7: read_books answers 200 with exactly the books that equal every
\* supplied filter, each once; with no filter, with every book.
C7_ListBooksMatchesFilters ==
    response.op = "read_books" =>
        LET author == response.args[1]
            publication_year == response.args[2]
            matching == { b \in books :
                            /\ (author.some => b.author = author.v)
                            /\ (publication_year.some => b.publication_year = publication_year.v) }
        IN  /\ response.status = 200
            /\ Range(response.body) = { AsBookGet(b) : b \in matching }
            /\ Len(response.body) = Cardinality(matching)

\* C8: create_book with a valid body answers 200, adds exactly one book, and
\* returns the record: title, author and publication_year as sent, and the
\* assigned id, which no earlier book has had.
C8_AddBookReturnsRecordWithId ==
    [][ (Answered("create_book") /\ BookCreateValid(response'.args[1]))
        => LET body == response'.args[1]
               out == response'.body[1] IN
           /\ response'.status = 200
           /\ Cardinality(books') = Cardinality(books) + 1
           /\ out.title = body.title
           /\ out.author = body.author
           /\ out.publication_year = IntFieldValue(body.publication_year)
           /\ "id" \in DOMAIN out
           /\ out.id \in Ids(books') \ bookIdsUsed ]_vars

\* C9: a notification task, scheduled or run, is for a review that a
\* committed write has put in the store before.
C9_NotifiedAfterPersisted ==
    /\ \A id \in BagToSet(pending) : id \in reviewIdsUsed
    /\ lastTask.outcome # "none" => lastTask.id \in reviewIdsUsed

C9_Witness == lastTask.outcome = "returned" /\ lastTask.id \in Ids(reviews)

\* C10: create_review answers 200 while its notification task is still to
\* run, and a task that runs, returning or raising, changes neither the
\* response nor the store: the review stays.
C10_ResponseIndependentOfTask ==
    [][ /\ (Answered("create_review") /\ response'.status = 200)
           => \E r \in reviews' \ reviews :
                 CopiesIn(r.id, pending') = CopiesIn(r.id, pending) + 1
        /\ lastTask' # lastTask
           => (response' = response /\ reviews' = reviews /\ books' = books) ]_vars

C10_Witness ==
    /\ lastTask.outcome = "raised"
    /\ response.op = "create_review"
    /\ response.status = 200
    /\ \E r \in reviews : r.id = lastTask.id /\ AsReviewCreate(r) = response.body[1]

\* C11: update_book, update_review, delete_book and delete_review on an id
\* that is not in the store answer 404 and leave books and reviews as they
\* were; so does update_book or delete_book on the id of the book that the
\* request before has just deleted.
C11_AbsentIdNotFound ==
    [][ /\ ( /\ \/ Answered("update_book") /\ BookCreateValid(response'.args[2])
                \/ Answered("delete_book")
             /\ response'.args[1] \notin Ids(books) )
           => (response'.status = 404 /\ books' = books /\ reviews' = reviews)
        /\ ( /\ \/ Answered("update_review") /\ ReviewCreateValid(response'.args[2])
                \/ Answered("delete_review")
             /\ response'.args[1] \notin Ids(reviews) )
           => (response'.status = 404 /\ books' = books /\ reviews' = reviews)
        /\ ( /\ response.op = "delete_book" /\ response.status = 200
             /\ \/ Answered("update_book") /\ BookCreateValid(response'.args[2])
                \/ Answered("delete_book")
             /\ response'.args[1] = response.args[1] )
           => response'.status = 404 ]_vars

C11_Witness ==
    /\ response.op = "update_book"
    /\ response.status = 404
    /\ response.args[1] \in bookIdsUsed
    /\ books # {}

\* C12: create_book and update_book with an empty title or an empty author
\* answer 422, and every stored book has a title and an author that are not
\* empty.
C12_BookTextNotEmpty ==
    /\ \A b \in books : b.title # "" /\ b.author # ""
    /\ ( /\ \/ response.op = "create_book"
            \/ response.op = "update_book" /\ response.args[1] \in Ids(books)
         /\ LET body == IF response.op = "create_book" THEN response.args[1] ELSE response.args[2] IN
            body.title = "" \/ body.author = "" )
       => response.status = 422

\* C13: create_review on an existing book with a valid body answers 200,
\* adds exactly one review, and returns it: text and rating as sent, the
\* assigned id, and the book_id of the request.
C13_SubmitReviewReturnsRecord ==
    [][ ( /\ Answered("create_review")
          /\ response'.args[1] \in Ids(books)
          /\ ReviewCreateValid(response'.args[2]) )
        => LET book_id == response'.args[1]
               body == response'.args[2]
               out == response'.body[1] IN
           /\ response'.status = 200
           /\ Cardinality(reviews') = Cardinality(reviews) + 1
           /\ reviews \subseteq reviews'
           /\ out.text = body.text
           /\ out.rating = IntFieldValue(body.rating)
           /\ "id" \in DOMAIN out /\ "book_id" \in DOMAIN out
           /\ out.id \in Ids(reviews') \ Ids(reviews)
           /\ out.book_id = book_id ]_vars

\* C15: update_book on an existing id answers 200 with the supplied title,
\* author and publication_year, which the row now has; the row keeps its id
\* and every other book and every review stays as it was.  update_review
\* does the same for text and rating, and the row keeps its id and book_id.
C15_UpdateReplacesMutableFields ==
    [][ /\ ( /\ Answered("update_book")
             /\ response'.args[1] \in Ids(books)
             /\ BookCreateValid(response'.args[2]) )
           => LET old == CHOOSE b \in books : b.id = response'.args[1]
                  body == response'.args[2]
                  new == [id |-> old.id, title |-> body.title, author |-> body.author,
                          publication_year |-> IntFieldValue(body.publication_year)] IN
              /\ response'.status = 200
              /\ response'.body = <<[title |-> new.title, author |-> new.author,
                                     publication_year |-> new.publication_year]>>
              /\ books' = (books \ {old}) \cup {new}
              /\ reviews' = reviews
        /\ ( /\ Answered("update_review")
             /\ response'.args[1] \in Ids(reviews)
             /\ ReviewCreateValid(response'.args[2]) )
           => LET old == CHOOSE r \in reviews : r.id = response'.args[1]
                  body == response'.args[2]
                  new == [id |-> old.id, book_id |-> old.book_id, text |-> body.text,
                          rating |-> IntFieldValue(body.rating)] IN
              /\ response'.status = 200
              /\ response'.body = <<[text |-> new.text, rating |-> new.rating]>>
              /\ reviews' = (reviews \ {old}) \cup {new}
              /\ books' = books ]_vars

C15_Witness ==
    /\ response.op = "update_book"
    /\ response.status = 200
    /\ Cardinality(books) = 2
    /\ \E b \in books : b.id = response.args[1] /\ b.title = ""
    /\ \E b \in books : b.id # response.args[1] /\ b.title # ""
    /\ reviews # {}

\* C16: a create_review that answers 200 schedules exactly one task, with
\* the id of the review it has just stored; one that answers 404 or 422
\* schedules none; every scheduled task has the id of a stored review.
C16_OneTaskPerStoredReview ==
    [][ Answered("create_review")
        => IF response'.status = 200
           THEN \E r \in reviews' \ reviews :
                    /\ CopiesIn(r.id, pending') = CopiesIn(r.id, pending) + 1
                    /\ BagCardinality(pending') = BagCardinality(pending) + 1
                    /\ r.id \in reviewIdsUsed'
           ELSE /\ response'.status \in {404, 422}
                /\ pending' = pending
                /\ reviews' = reviews ]_vars

C16_Witness ==
    /\ response.op = "create_review"
    /\ response.status = 200
    /\ BagCardinality(pending) = 2

\* C17: for a book that has a review, read_reviews answers 200 with exactly
\* the stored reviews whose book_id is the requested one, each once.
C17_ListsReviewsOfBook ==
    response.op = "read_reviews" =>
        LET mine == { r \in reviews : r.book_id = response.args[1] } IN
        mine # {} =>
            /\ response.status = 200
            /\ Range(response.body) = { [id |-> r.id, text |-> r.text, rating |-> r.rating] : r \in mine }
            /\ Len(response.body) = Cardinality(mine)

C17_Witness ==
    /\ response.op = "read_reviews"
    /\ response.status = 200
    /\ \E r \in reviews : r.book_id # response.args[1]

\* C18: delete_review on an existing review answers 200 with the
\* acknowledgement and removes that review; every other review and every
\* book stays as it was.
C18_DeleteReviewRemovesOne ==
    [][ (Answered("delete_review") /\ response'.args[1] \in Ids(reviews))
        => /\ response'.status = 200
           /\ response'.body = <<[message |-> "Review deleted successfully"]>>
           /\ reviews' = { r \in reviews : r.id # response'.args[1] }
           /\ books' = books ]_vars

C18_Witness ==
    /\ response.op = "delete_review"
    /\ response.status = 200
    /\ reviews # {}
    /\ books # {}

\* C14: when two update_book (two update_review) requests on the same id
\* have both committed, the row has the title, author and publication_year
\* (the text and rating) of one of the two requests, all of them.
C14_ConcurrentUpdatesNoMixture ==
    \A w1, w2 \in Workers :
        ( /\ w1 # w2
          /\ workers[w1] # Idle /\ workers[w2] # Idle
          /\ workers[w1].op = workers[w2].op
          /\ workers[w1].op \in {"update_book", "update_review"}
          /\ workers[w1].pc = "committed" /\ workers[w2].pc = "committed"
          /\ workers[w1].id = workers[w2].id )
        => LET id == workers[w1].id
               b1 == workers[w1].body
               b2 == workers[w2].body IN
           IF workers[w1].op = "update_book"
           THEN \A b \in books : b.id = id =>
                    \E x \in {b1, b2} :
                        /\ b.title = x.title
                        /\ b.author = x.author
                        /\ b.publication_year = IntFieldValue(x.publication_year)
           ELSE \A r \in reviews : r.id = id =>
                    \E x \in {b1, b2} :
                        /\ r.text = x.text
                        /\ r.rating = IntFieldValue(x.rating)

\* ------------------------------------------------------------------ C19
\* C19: a Company written by save_to_file and read by load_from_file into a
\* new, empty Company has the same set of department names and, for each
\* department, the same employee names in the same order, the loaded
\* employees of each department carrying emp_id 1..n in that order.
C19_SaveLoadRoundTrip ==
    reloaded.done =>
        LET source == reloaded.source
            loadedCompany == reloaded.company
        IN  /\ { loadedCompany[i].key : i \in 1 .. Len(loadedCompany) }
                 = { source[i].value.name : i \in 1 .. Len(source) }
            /\ \A i \in 1 .. Len(source) :
                   \E j \in 1 .. Len(loadedCompany) :
                       LET was == source[i].value.employees
                           now == loadedCompany[j].value.employees
                       IN  /\ loadedCompany[j].key = source[i].value.name
                           /\ loadedCompany[j].value.name = source[i].value.name
                           /\ Len(now) = Len(was)
                           /\ \A k \in 1 .. Len(was) :
                                  /\ now[k].name = was[k].name
                                  /\ now[k].emp_id = k

\* Two departments were saved, one of them with two employees of the same
\* name whose ids were not 1 and 2, and loaded into a new Company.
C19_Witness ==
    /\ reloaded.done
    /\ Len(reloaded.source) = 2
    /\ \E i \in 1 .. 2 :
           LET was == reloaded.source[i].value.employees
           IN  /\ Len(was) = 2
               /\ was[1].name = was[2].name
               /\ was[1].emp_id # 1

\* ------------------------------------------------------------------ C20
\* C20: a Company never holds two Departments of one name; add_department
\* with a name that is registered leaves the registered Department and its
\* employees as they were, and remove_department with a name that is not
\* registered leaves the company as it was.
C20_OneDepartmentPerName ==
    [][ /\ \A i, j \in 1 .. Len(departments') :
               departments'[i].value.name = departments'[j].value.name => i = j
        /\ ( /\ calls' = calls + 1
             /\ lastCall'.op = "add_department"
             /\ \E i \in 1 .. Len(departments) :
                    departments[i].key = lastCall'.args[1].name )
           => departments' = departments
        /\ ( /\ calls' = calls + 1
             /\ lastCall'.op = "remove_department"
             /\ \A i \in 1 .. Len(departments) :
                    departments[i].key # lastCall'.args[1] )
           => departments' = departments
      ]_vars

\* add_department was called with a Department other than the one that is
\* registered under its name, which has an employee.
C20_Witness ==
    /\ lastCall.op = "add_department"
    /\ \E i \in 1 .. Len(departments) :
           /\ departments[i].key = lastCall.args[1].name
           /\ departments[i].value # lastCall.args[1]
           /\ departments[i].value.employees # <<>>

====
